---- MODULE Spec2Model ----
(***************************************************************************)
(* Premier Squares Service: the contest lifecycle (Create, UpdateNames,    *)
(* Start) and the bag-builder winner registry (SetWinner, GetWinner) as    *)
(* request handlers running concurrently against a document store.         *)
(*                                                                         *)
(* A handler is split at every `await` of a store call: the store applies  *)
(* one read or one write atomically, and the synchronous code before and   *)
(* after it belongs to the same step.                                      *)
(***************************************************************************)
EXTENDS Integers, Sequences, FiniteSets, TLC

VARIABLES
  contests,   \* the contests collection: id -> document
  winners,    \* the bagBuilderWinners collection: id -> document
  req,        \* the request handlers in flight, one per slot
  now,        \* the clock new Date() reads
  sent,       \* the response sent last, with the error it was made from,
              \* until the next request arrives
  isShuttingDown,  \* GracefulShutdown.isShuttingDown
  blockedIPs,  \* rateLimit.js: the set of blocked client addresses
  ddosHits,    \* the hits ddosLimiter has counted in its window, per address
  generalHits, \* the hits generalLimiter has counted in its window
  blockTimers, \* the pending setTimeout(() => blockedIPs.delete(ip), 1 hour)
  activeConnections, \* GracefulShutdown.activeConnections: the tracked sockets
  openSockets,     \* the connections of the server that have not ended
  listening,       \* the server accepts connections (server.close not called)
  shutdownLog,     \* the steps of handleShutdown that have begun, in order
  elapsed,         \* waitForActiveRequests: the time waited, in check intervals
  signalsReceived, \* the shutdown signals delivered to the process
  exitCode         \* the code given to process.exit, NotExited before

\* the state of the rate limiting middleware
limiterVars == <<blockedIPs, ddosHits, generalHits, blockTimers>>

\* the state of the shutdown sequence and of the connections it waits for
shutdownVars ==
  <<activeConnections, openSockets, listening, shutdownLog, elapsed,
    signalsReceived, exitCode>>

\* the state of the middleware mounted before the routes
middlewareVars == <<limiterVars, shutdownVars>>

vars == <<contests, winners, req, now, sent, isShuttingDown, middlewareVars>>

----------------------------------------------------------------------------
(* Bounds                                                                  *)

\* Number of names a roster needs; stands for the 100 of the source (the
\* exact-100 test of validateStartContest and the max(100) of
\* namesArraySchema are the same number).
RosterSize == 3

\* Request slots, i.e. handlers that can be in flight at the same time.
MaxRequests == 2

\* Client addresses that send requests.
MaxIPs == 2

\* Requests of one address that ddosLimiter lets through in one window;
\* stands for config.DDOS_LIMIT.
DdosLimit == 1

\* Requests of one address that generalLimiter lets through in one window;
\* stands for config.RATE_LIMIT_MAX_REQUESTS.
GeneralLimit == 1

\* The hour an address stays blocked, in steps of the timer clock.
BlockTicks == 2

\* Client connections the server can hold.
MaxConnections == 2

\* config.GRACEFUL_SHUTDOWN_TIMEOUT (30 seconds), in check intervals of
\* waitForActiveRequests (one second).
ShutdownTimeout == 2

\* Shutdown signals the process is sent.
MaxSignals == 3

\* Documents that Create can add to the contests collection.
MaxContests == 1

\* Largest value of the clock read by new Date(); the clock saturates there.
MaxTime == 2

Requests == 1..MaxRequests
IPs == 1..MaxIPs
Connections == 1..MaxConnections
\* the signals init() listens to
Signals == {"SIGTERM", "SIGINT", "SIGUSR2"}
\* the exit code of a process that runs
NotExited == -1
\* the ids of the documents the collection holds or can come to hold
ContestIds == DOMAIN contests
\* no more winner documents can come to exist than handlers run at a time
WinnerIds == 1..MaxRequests

----------------------------------------------------------------------------
(* JavaScript values.  A string is the sequence of its characters.         *)

Undef == [type |-> "undefined", str |-> <<>>, num |-> 0]
Str(s) == [type |-> "string", str |-> s, num |-> 0]
Num(n) == [type |-> "number", str |-> <<>>, num |-> n]

\* !v for the values above
Falsy(v) ==
  \/ v.type = "undefined"
  \/ v.type = "string" /\ v.str = <<>>
  \/ v.type = "number" /\ v.num = 0

\* A names field: absent, an array of values, or a value that is no array.
NoNames == [kind |-> "undefined", items |-> <<>>]
Arr(items) == [kind |-> "array", items |-> items]
NotArr == [kind |-> "string", items |-> <<>>]

IsSpace(c) == c = " "

RECURSIVE TrimLeft(_)
TrimLeft(s) ==
  IF s # <<>> /\ IsSpace(Head(s)) THEN TrimLeft(Tail(s)) ELSE s

RECURSIVE TrimRight(_)
TrimRight(s) ==
  IF s # <<>> /\ IsSpace(s[Len(s)])
  THEN TrimRight(SubSeq(s, 1, Len(s) - 1))
  ELSE s

\* String.prototype.trim
Trim(s) == TrimRight(TrimLeft(s))

NotAngle(c) == c \notin {"<", ">"}

\* a sanitizer that trims and keeps the angle brackets
sanitizeString_trimOnly(v) ==
  IF v.type # "string" THEN v ELSE Str(Trim(v.str))

sanitizeString(v) ==
  IF v.type # "string" THEN v ELSE Str(SelectSeq(Trim(v.str), NotAngle))

NotEmptyString(v) == v # Str(<<>>)

sanitizeArray(items) ==
  SelectSeq([i \in DOMAIN items |-> sanitizeString(items[i])], NotEmptyString)

----------------------------------------------------------------------------
(* Documents                                                               *)

NoDoc ==
  [exists |-> FALSE, status |-> "", eventId |-> Undef, costPerSquare |-> Undef,
   names |-> NoNames, createdAt |-> 0, updatedAt |-> 0]

NoWinner == [exists |-> FALSE, name |-> Undef, createdAt |-> 0, updatedAt |-> 0]

\* new Date() when the clock was last read as t: it may have advanced since.
Dates(t) == {u \in t..(t + 1) : u <= MaxTime}

\* Thrown Error objects and HTTP responses.
Msg(text, arg) == [text |-> text, arg |-> arg]

\* the contestData summary that Start puts in error.details
NoSnapshot ==
  [id |-> 0, eventId |-> Undef, costPerSquare |-> Undef, namesCount |-> 0,
   status |-> ""]

\* an Error: name, code, message and the properties of error.details
NoErr ==
  [name |-> "", code |-> "", message |-> Msg("", ""),
   validationErrors |-> <<>>, currentStatus |-> "",
   contestData |-> NoSnapshot, existingWinner |-> NoWinner,
   errorDetails |-> <<>>]

\* the details property of an error response; a property that is not there
\* has the empty value
NoDetails ==
  [operation |-> "", firebaseCode |-> "", validationErrors |-> <<>>,
   currentStatus |-> "", contestData |-> NoSnapshot,
   existingWinner |-> NoWinner, field |-> "", validationType |-> "",
   allErrors |-> <<>>]

\* a response: status code and the properties of the JSON payload; a
\* property that is not there has the empty value
NoResp ==
  [code |-> 0, error |-> "", message |-> Msg("", ""), id |-> 0,
   data |-> NoDoc, winner |-> NoWinner, details |-> NoDetails,
   count |-> 0, contests |-> {}]

NoUpdate == [status |-> "", names |-> NoNames, updatedAt |-> 0]

\* the body of POST /contests or PUT /contests/:id as the client sent it
NoBody == [eventId |-> Undef, costPerSquare |-> Undef, names |-> NoNames]

IdleReq ==
  [pc |-> "idle", op |-> "none", id |-> 0, names |-> NoNames, name |-> Undef,
   body |-> NoBody, data |-> NoDoc, wdata |-> NoWinner, upd |-> NoUpdate,
   ip |-> 0, contentType |-> ""]

NoneSent ==
  [by |-> 0, op |-> "none", id |-> 0, body |-> NoBody, err |-> NoErr,
   resp |-> NoResp, ip |-> 0, contentType |-> ""]

----------------------------------------------------------------------------
(* utils/errorHandler.js                                                   *)

StatusCodes(errorType) ==
  CASE errorType = "VALIDATION_ERROR" -> 400
    [] errorType = "NOT_FOUND_ERROR" -> 404
    [] errorType = "DATABASE_ERROR" -> 503
    [] OTHER -> 500

\* the response takes the message of the error; its details are
\* additionalData and nothing of error.details
createErrorResponse(error, errorType, additionalData) ==
  [NoResp EXCEPT !.code = StatusCodes(errorType),
                 !.error = errorType,
                 !.message = error.message,
                 !.details = additionalData]

\* a handler that puts the whole list of validationDetails in the response
handleValidationError_allErrors(error, validationDetails) ==
  createErrorResponse(error, "VALIDATION_ERROR",
    [NoDetails EXCEPT !.field = validationDetails.field,
                      !.validationType = validationDetails.type,
                      !.allErrors = validationDetails.allErrors])

\* the response gets field, value and validationType of validationDetails
\* (the value is left out here); allErrors goes to the log only
handleValidationError(error, validationDetails) ==
  createErrorResponse(error, "VALIDATION_ERROR",
    [NoDetails EXCEPT !.field = validationDetails.field,
                      !.validationType = validationDetails.type])

\* a handler for which every error is a database error
handleFirebaseError_database(error, operation) ==
  createErrorResponse(error, "DATABASE_ERROR",
    [NoDetails EXCEPT !.operation = operation, !.firebaseCode = error.code])

handleFirebaseError(error, operation) ==
  createErrorResponse(error,
    IF error.code = "not-found" THEN "NOT_FOUND_ERROR" ELSE "DATABASE_ERROR",
    [NoDetails EXCEPT !.operation = operation, !.firebaseCode = error.code])

NotFoundError ==
  [NoErr EXCEPT !.name = "NotFoundError", !.code = "not-found",
                !.message = Msg("Contest not found", "")]

----------------------------------------------------------------------------
(* middleware/validation.js                                                *)

\* one entry of error.details.map(...) in validate: the path of the value
\* (for an entry of an array the path of the array and the index) and the
\* type of the failure
Detail(field, index, type) == [field |-> field, index |-> index, type |-> type]

NoDetail == Detail("", 0, "")

MaxNameLength == 100
MaxCostPerSquare == 10000

IdChars == {"a", "b", "c", "d", "e", "-", "_"}

\* eventIdSchema, applied to the sanitized value
eventIdValid(v) ==
  /\ v.type = "string"
  /\ Len(v.str) >= 1
  /\ Len(v.str) <= 100
  /\ \A i \in DOMAIN v.str : v.str[i] \in IdChars

\* costPerSquareSchema
costPerSquareValid(v) ==
  /\ v.type = "number"
  /\ v.num > 0
  /\ v.num <= MaxCostPerSquare

\* nameSchema
nameValid(v) ==
  /\ v.type = "string"
  /\ Len(v.str) >= 1
  /\ Len(v.str) <= MaxNameLength

NamesArrayMax == RosterSize

\* a namesArraySchema with .required()
namesArrayValid_required(n) ==
  /\ n.kind = "array"
  /\ \A i \in DOMAIN n.items : nameValid(n.items[i])
  /\ Len(n.items) >= 1
  /\ Len(n.items) <= NamesArrayMax

\* namesArraySchema, applied to the sanitized value; the schema has no
\* .required(), so a body without names passes
namesArrayValid(n) ==
  \/ n.kind = "undefined"
  \/ /\ n.kind = "array"
     /\ \A i \in DOMAIN n.items : nameValid(n.items[i])
     /\ Len(n.items) >= 1
     /\ Len(n.items) <= NamesArrayMax

\* the details of the failures of eventIdSchema
eventIdDetails(v) ==
  IF v.type = "undefined" THEN <<Detail("eventId", 0, "any.required")>>
  ELSE IF v.type # "string" THEN <<Detail("eventId", 0, "string.base")>>
  ELSE IF v.str = <<>> THEN <<Detail("eventId", 0, "string.empty")>>
  ELSE IF \E i \in DOMAIN v.str : v.str[i] \notin IdChars
  THEN <<Detail("eventId", 0, "string.pattern.base")>>
  ELSE <<>>

\* the details of the failures of costPerSquareSchema
costPerSquareDetails(v) ==
  IF v.type = "undefined" THEN <<Detail("costPerSquare", 0, "any.required")>>
  ELSE IF v.type # "number" THEN <<Detail("costPerSquare", 0, "number.base")>>
  ELSE IF v.num <= 0 THEN <<Detail("costPerSquare", 0, "number.positive")>>
  ELSE IF v.num > MaxCostPerSquare
  THEN <<Detail("costPerSquare", 0, "number.max")>>
  ELSE <<>>

\* the details of the failures of the entries of a names array, from index i
RECURSIVE nameDetailsFrom(_, _)
nameDetailsFrom(items, i) ==
  IF i > Len(items) THEN <<>>
  ELSE (IF items[i].type # "string"
        THEN <<Detail("names", i - 1, "string.base")>>
        ELSE <<>>) \o nameDetailsFrom(items, i + 1)

\* the details of the failures of namesArraySchema
namesArrayDetails(n) ==
  IF n.kind = "undefined" THEN <<>>
  ELSE IF n.kind # "array" THEN <<Detail("names", 0, "array.base")>>
  ELSE nameDetailsFrom(n.items, 1)
         \o (IF Len(n.items) < 1 THEN <<Detail("names", 0, "array.min")>>
             ELSE IF Len(n.items) > NamesArrayMax
             THEN <<Detail("names", 0, "array.max")>>
             ELSE <<>>)

\* sanitizeInput on the names property of the body
sanitizeNames(n) == IF n.kind = "array" THEN Arr(sanitizeArray(n.items)) ELSE n

----------------------------------------------------------------------------
(* routes/contests.js: validation helpers                                  *)

\* a status test that lets every status through
validateContestStatus_anyStatus(status) ==
  [isValid |-> TRUE, error |-> Msg("", "")]

validateContestStatus(status) ==
  IF status # "new"
  THEN [isValid |-> FALSE, error |-> Msg("Contest cannot be updated in state", status)]
  ELSE [isValid |-> TRUE, error |-> Msg("", "")]

RequiredNames == RosterSize

VErr(kind, status, n) == [kind |-> kind, status |-> status, n |-> n]

\* the entry test without trim()
BadName_noTrim(v) == v.type # "string" \/ v.str = <<>>

\* typeof x !== 'string' || x.trim() === ''
BadName(v) == v.type # "string" \/ Trim(v.str) = <<>>

\* index (from 0) of the first entry the loop of validateStartContest rejects
FirstBadIndex(items) ==
  CHOOSE i \in 0..(Len(items) - 1) :
    /\ BadName(items[i + 1])
    /\ \A k \in 0..(i - 1) : ~BadName(items[k + 1])

\* if (contestData.status !== 'new') ...
StatusErrors(contestData) ==
  IF contestData.status # "new"
  THEN <<VErr("status", contestData.status, 0)>> ELSE <<>>

\* if (!contestData.eventId) ...
EventIdErrors(contestData) ==
  IF Falsy(contestData.eventId) THEN <<VErr("eventId", "", 0)>> ELSE <<>>

\* if (!costPerSquare || typeof costPerSquare !== 'number' || costPerSquare <= 0)
CostPerSquareErrors(contestData) ==
  IF \/ Falsy(contestData.costPerSquare)
     \/ contestData.costPerSquare.type # "number"
     \/ contestData.costPerSquare.num <= 0
  THEN <<VErr("costPerSquare", "", 0)>> ELSE <<>>

\* the if / else if / else on contestData.names
NamesErrors(contestData) ==
  IF contestData.names.kind # "array"
  THEN <<VErr("names.missing", "", 0)>>
  ELSE IF Len(contestData.names.items) # RequiredNames
  THEN <<VErr("names.length", "", Len(contestData.names.items))>>
  ELSE IF \E i \in DOMAIN contestData.names.items :
            BadName(contestData.names.items[i])
  THEN <<VErr("names.entry", "", FirstBadIndex(contestData.names.items))>>
  ELSE <<>>

\* a validateStartContest that returns at its first failure
validateStartContest_failFast(contestData) ==
  IF StatusErrors(contestData) # <<>> THEN StatusErrors(contestData)
  ELSE IF EventIdErrors(contestData) # <<>> THEN EventIdErrors(contestData)
  ELSE IF CostPerSquareErrors(contestData) # <<>>
  THEN CostPerSquareErrors(contestData)
  ELSE NamesErrors(contestData)

\* validateStartContest without its status test
validateStartContest_noStatus(contestData) ==
  EventIdErrors(contestData) \o CostPerSquareErrors(contestData)
    \o NamesErrors(contestData)

validateStartContest(contestData) ==
  StatusErrors(contestData) \o EventIdErrors(contestData)
    \o CostPerSquareErrors(contestData) \o NamesErrors(contestData)

----------------------------------------------------------------------------
(* The shuffle of Start                                                    *)

\* a[i] = a[j]; a[j] = a[i]: a swap without the temporary
Swap_noTemp(a, i, j) == [a EXCEPT ![i + 1] = a[j + 1]]

\* [a[i], a[j]] = [a[j], a[i]], positions counted from 0
Swap(a, i, j) == [a EXCEPT ![i + 1] = a[j + 1], ![j + 1] = a[i + 1]]

\* Math.floor(Math.random() * i): j never equals i
DrawJ_exclusive(i) == 0..(i - 1)

\* Math.floor(Math.random() * (i + 1))
DrawJ(i) == 0..i

\* One draw for every iteration i = n-1 .. 1 of the loop
DrawSeqs(n) ==
  {d \in [1..(n - 1) -> 0..(n - 1)] : \A i \in 1..(n - 1) : d[i] \in DrawJ(i)}

RECURSIVE ShuffleFrom(_, _, _)
ShuffleFrom(a, d, i) ==
  IF i > 0 THEN ShuffleFrom(Swap(a, i, d[i]), d, i - 1) ELSE a

\* for (let i = length - 1; i > 0; i--) swap(i, j)
ShuffleNames(items, d) == ShuffleFrom(items, d, Len(items) - 1)

----------------------------------------------------------------------------
(* Request inputs                                                          *)

Letters == <<"a", "b", "c", "d", "e", "f">>

\* n distinct names
Roster(n) == [i \in 1..n |-> Str(<<Letters[i]>>)]

\* Bodies of PUT /contests/:id: the names property as the client sent it
NamesInputs ==
  { NoNames,
    Arr(<<Str(<<"a">>), Str(<<>>)>>),
    Arr(Roster(RosterSize)),
    Arr([i \in 1..RosterSize |-> Str(<<"a">>)]),
    Arr(<<Str(<<"a">>)>>),
    Arr([Roster(RosterSize) EXCEPT ![RosterSize] = Str(<<"<", " ", ">">>)]),
    Arr(Roster(RosterSize) \o <<Str(<<" ">>)>>),
    Arr(Roster(RosterSize + 1)),
    Arr(<<>>) }

\* Bodies of POST /contests
EventIdInputs == {Str(<<"e">>), Str(<<" ", "e", "<", ">">>), Str(<<"e", "!">>), Undef}
CostInputs == {Num(10), Num(0), Undef}

\* :name of POST /bagbuilder/winner/:name
WinnerNameInputs == {Str(<<"a">>), Str(<<" ", "b">>), Str(<<" ">>), Str(<<>>)}

----------------------------------------------------------------------------
(* The store                                                               *)

FreeContestIds == {i \in ContestIds : ~contests[i].exists}

\* the collection can take the documents of the add() calls under way and
\* one more
HasRoom ==
  Cardinality(FreeContestIds) >
    Cardinality({q \in Requests : req[q].pc = "add" /\ req[q].op = "create"})

\* set() in place of update(): the document is replaced by the named fields
ApplyUpdate_set(doc, upd) ==
  [NoDoc EXCEPT !.exists = TRUE,
                !.status = upd.status,
                !.names = upd.names,
                !.updatedAt = upd.updatedAt]

\* an update that the store applies only while the status is still new
ApplyUpdate_ifNew(doc, upd) ==
  IF doc.status # "new"
  THEN doc
  ELSE [doc EXCEPT !.status = IF upd.status = "" THEN @ ELSE upd.status,
                   !.names = upd.names,
                   !.updatedAt = upd.updatedAt]

\* Firestore update(): the named fields are overwritten, the others kept
ApplyUpdate(doc, upd) ==
  [doc EXCEPT !.status = IF upd.status = "" THEN @ ELSE upd.status,
              !.names = upd.names,
              !.updatedAt = upd.updatedAt]

Idle(r) == req[r].pc = "idle"

\* res.status(..).json(..): the handler of request q ends and frees its slot
Respond(r, q, err, resp) ==
  /\ req' = [req EXCEPT ![r] = IdleReq]
  /\ sent' = [by |-> r, op |-> q.op, id |-> q.id, body |-> q.body,
              err |-> err, resp |-> resp, ip |-> q.ip,
              contentType |-> q.contentType]

\* the validationError of validate
ValidationFailed(errorDetails) ==
  [NoErr EXCEPT !.name = "ValidationError",
                !.message = Msg("Validation failed", ""),
                !.errorDetails = errorDetails]

\* {field: errorDetails[0]?.field, type: errorDetails[0]?.type, allErrors}
FirstOf(errorDetails) ==
  LET first == IF errorDetails = <<>> THEN NoDetail ELSE errorDetails[1]
  IN [field |-> first.field, type |-> first.type, allErrors |-> errorDetails]

\* the validation failure validate answers with
RespondInvalid(r, q, errorDetails) ==
  Respond(r, q, ValidationFailed(errorDetails),
          handleValidationError(ValidationFailed(errorDetails),
                                FirstOf(errorDetails)))

----------------------------------------------------------------------------
(* POST /contests                                                          *)

\* a contestData that starts with an empty names array
NewContestData_emptyNames(eventId, costPerSquare, t1, t2) ==
  [NoDoc EXCEPT !.exists = TRUE,
                !.eventId = eventId,
                !.costPerSquare = costPerSquare,
                !.names = Arr(<<>>),
                !.createdAt = t1,
                !.updatedAt = t2,
                !.status = "new"]

\* const contestData = {eventId, costPerSquare, createdAt, updatedAt, status}
NewContestData(eventId, costPerSquare, t1, t2) ==
  [NoDoc EXCEPT !.exists = TRUE,
                !.eventId = eventId,
                !.costPerSquare = costPerSquare,
                !.createdAt = t1,
                !.updatedAt = t2,
                !.status = "new"]

\* the request arrives: validate(createContestSchema), then contestData is
\* built and add() is called
Create(r) ==
  /\ Idle(r)
  /\ ~isShuttingDown
  /\ \E e \in EventIdInputs, c \in CostInputs :
       LET se == sanitizeString(e)
           fresh == [IdleReq EXCEPT !.op = "create",
                                    !.body.eventId = e,
                                    !.body.costPerSquare = c]
       IN IF eventIdValid(se) /\ costPerSquareValid(c)
          THEN \E t1 \in Dates(now) : \E t2 \in Dates(t1) :
                 /\ HasRoom
                 /\ sent' = NoneSent
                 /\ req' = [req EXCEPT ![r] =
                      [fresh EXCEPT !.pc = "add",
                                    !.data = NewContestData(se, c, t1, t2)]]
                 /\ now' = t2
          ELSE /\ RespondInvalid(r, fresh,
                    eventIdDetails(se) \o costPerSquareDetails(c))
               /\ now' = now
  /\ UNCHANGED <<contests, winners>>
  /\ UNCHANGED isShuttingDown
  /\ UNCHANGED middlewareVars

\* the store adds the document under an id it chooses; 201 is sent
CreateAdd(r) ==
  /\ req[r].pc = "add"
  /\ req[r].op = "create"
  /\ \E id \in FreeContestIds :
       /\ contests' = [contests EXCEPT ![id] = req[r].data]
       /\ Respond(r, [req[r] EXCEPT !.id = id], NoErr,
            [NoResp EXCEPT !.code = 201,
               !.message = Msg("Contest entry created successfully", ""),
               !.id = id, !.data = req[r].data])
  /\ UNCHANGED <<winners, now>>
  /\ UNCHANGED isShuttingDown
  /\ UNCHANGED middlewareVars

----------------------------------------------------------------------------
(* GET /contests and GET /contests/:id                                     *)

\* app.use('*'): the answer to a request that no route has taken
EndpointNotFound ==
  [NoResp EXCEPT !.code = 404,
                 !.error = "NOT_FOUND_ERROR",
                 !.message = Msg("The requested endpoint does not exist", "")]

\* GET /contests: the contests router has routes for POST / and for /:id
\* only, and GET / and GET /health of the application are other paths, so
\* the request falls through to the 404 handler
ListContests(r) ==
  /\ Idle(r)
  /\ ~isShuttingDown
  /\ Respond(r, [IdleReq EXCEPT !.op = "list"], NoErr, EndpointNotFound)
  /\ UNCHANGED <<contests, winners, now>>
  /\ UNCHANGED isShuttingDown
  /\ UNCHANGED middlewareVars

\* the request arrives: validateContestId, then validateContestExists is called
Get(r) ==
  /\ Idle(r)
  /\ ~isShuttingDown
  /\ \E id \in ContestIds :
       req' = [req EXCEPT ![r] =
                 [IdleReq EXCEPT !.op = "get", !.id = id, !.pc = "get1"]]
  /\ sent' = NoneSent
  /\ UNCHANGED <<contests, winners, now>>
  /\ UNCHANGED isShuttingDown
  /\ UNCHANGED middlewareVars

\* the document is read and sent with 200, or it is not there
GetCheck(r) ==
  /\ req[r].pc = "get1"
  /\ req[r].op = "get"
  /\ LET doc == contests[req[r].id]
     IN IF ~doc.exists
        THEN Respond(r, req[r], NotFoundError,
                     handleFirebaseError(NotFoundError, "get_contest"))
        ELSE Respond(r, req[r], NoErr,
               [NoResp EXCEPT !.code = 200, !.id = req[r].id, !.data = doc])
  /\ UNCHANGED <<contests, winners, now>>
  /\ UNCHANGED isShuttingDown
  /\ UNCHANGED middlewareVars

----------------------------------------------------------------------------
(* PUT /contests/:id                                                       *)

\* the request arrives: validateContestId, validate(updateContestSchema),
\* then the handler calls validateContestExists
UpdateNamesRoute(r, q0) ==
  /\ Idle(r)
  /\ \E id \in ContestIds, n \in NamesInputs :
       LET sn == sanitizeNames(n)
           fresh == [q0 EXCEPT !.op = "updateNames", !.id = id,
                                    !.body.names = n]
       IN IF namesArrayValid(sn)
          THEN /\ req' = [req EXCEPT ![r] =
                    [fresh EXCEPT !.pc = "get1", !.names = sn]]
               /\ sent' = NoneSent
          ELSE RespondInvalid(r, fresh, namesArrayDetails(sn))
  /\ UNCHANGED <<contests, winners, now>>
  /\ UNCHANGED isShuttingDown

UpdateNames(r) ==
  /\ ~isShuttingDown
  /\ UpdateNamesRoute(r, IdleReq)
  /\ UNCHANGED middlewareVars

\* what update() throws for {names: undefined, updatedAt}: a Firestore value
\* cannot be undefined
UndefinedValue ==
  [NoErr EXCEPT !.name = "Error",
                !.message = Msg("Cannot use undefined as a Firestore value", "names")]

\* the document is read; existence and status are checked; update() is called
UpdateNamesCheck(r) ==
  /\ req[r].pc = "get1"
  /\ req[r].op = "updateNames"
  /\ LET doc == contests[req[r].id]
         statusValidation == validateContestStatus(doc.status)
     IN IF ~doc.exists
        THEN /\ Respond(r, req[r], NotFoundError,
                        handleFirebaseError(NotFoundError, "update_contest"))
             /\ now' = now
        ELSE IF ~statusValidation.isValid
        THEN LET error == [NoErr EXCEPT !.name = "ValidationError",
                              !.message = statusValidation.error,
                              !.currentStatus = doc.status]
             IN /\ Respond(r, req[r], error,
                           handleFirebaseError(error, "update_contest"))
                /\ now' = now
        ELSE IF req[r].names.kind = "undefined"
        THEN /\ Respond(r, req[r], UndefinedValue,
                        handleFirebaseError(UndefinedValue, "update_contest"))
             /\ now' \in Dates(now)
        ELSE \E t \in Dates(now) :
               /\ req' = [req EXCEPT ![r].pc = "update",
                            ![r].names = NoNames,
                            ![r].upd = [status |-> "", names |-> req[r].names,
                                        updatedAt |-> t]]
               /\ now' = t
               /\ sent' = sent
  /\ UNCHANGED <<contests, winners>>
  /\ UNCHANGED isShuttingDown
  /\ UNCHANGED middlewareVars

\* the store applies update({names, updatedAt})
UpdateNamesWrite(r) ==
  /\ req[r].pc = "update"
  /\ req[r].op = "updateNames"
  /\ contests' = [contests EXCEPT ![req[r].id] = ApplyUpdate(@, req[r].upd)]
  /\ req' = [req EXCEPT ![r].pc = "get2"]
  /\ UNCHANGED <<winners, now, sent>>
  /\ UNCHANGED isShuttingDown
  /\ UNCHANGED middlewareVars

\* the document is read again and sent with 200
UpdateNamesRespond(r) ==
  /\ req[r].pc = "get2"
  /\ req[r].op = "updateNames"
  /\ Respond(r, req[r], NoErr,
       [NoResp EXCEPT !.code = 200,
          !.message = Msg("Contest updated successfully", ""),
          !.id = req[r].id, !.data = contests[req[r].id]])
  /\ UNCHANGED <<contests, winners, now>>
  /\ UNCHANGED isShuttingDown
  /\ UNCHANGED middlewareVars

----------------------------------------------------------------------------
(* POST /contests/:id/start                                                *)

\* the request arrives: validateContestId, then validateContestExists is called
StartRoute(r, q0) ==
  /\ Idle(r)
  /\ \E id \in ContestIds :
       req' = [req EXCEPT ![r] =
                 [q0 EXCEPT !.op = "start", !.id = id, !.pc = "get1"]]
  /\ sent' = NoneSent
  /\ UNCHANGED <<contests, winners, now>>
  /\ UNCHANGED isShuttingDown

Start(r) ==
  /\ ~isShuttingDown
  /\ StartRoute(r, IdleReq)
  /\ UNCHANGED middlewareVars

\* the contestData of the error Start throws
StartSnapshot(id, contestData) ==
  [id |-> id, eventId |-> contestData.eventId,
   costPerSquare |-> contestData.costPerSquare,
   namesCount |-> Len(contestData.names.items),
   status |-> contestData.status]

\* what Start passes to update()
StartUpdateData(shuffledNames, t) ==
  [status |-> "active", names |-> Arr(shuffledNames), updatedAt |-> t]

\* the document is read and validated, the names are shuffled, update() is
\* called
StartCheck(r) ==
  /\ req[r].pc = "get1"
  /\ req[r].op = "start"
  /\ LET doc == contests[req[r].id]
         validationErrors == validateStartContest(doc)
     IN IF ~doc.exists
        THEN /\ Respond(r, req[r], NotFoundError,
                        handleFirebaseError(NotFoundError, "start_contest"))
             /\ now' = now
        ELSE IF Len(validationErrors) > 0
        THEN LET error == [NoErr EXCEPT !.name = "ValidationError",
                              !.message = Msg("Contest cannot start due to missing or invalid data", ""),
                              !.validationErrors = validationErrors,
                              !.contestData = StartSnapshot(req[r].id, doc)]
             IN /\ Respond(r, req[r], error,
                           handleFirebaseError(error, "start_contest"))
                /\ now' = now
        ELSE \E d \in DrawSeqs(Len(doc.names.items)) : \E t \in Dates(now) :
               /\ req' = [req EXCEPT ![r].pc = "update",
                            ![r].upd = StartUpdateData(
                                         ShuffleNames(doc.names.items, d), t)]
               /\ now' = t
               /\ sent' = sent
  /\ UNCHANGED <<contests, winners>>
  /\ UNCHANGED isShuttingDown
  /\ UNCHANGED middlewareVars

\* the store applies update({status, names, updatedAt})
StartWrite(r) ==
  /\ req[r].pc = "update"
  /\ req[r].op = "start"
  /\ contests' = [contests EXCEPT ![req[r].id] = ApplyUpdate(@, req[r].upd)]
  /\ req' = [req EXCEPT ![r].pc = "get2"]
  /\ UNCHANGED <<winners, now, sent>>
  /\ UNCHANGED isShuttingDown
  /\ UNCHANGED middlewareVars

\* the document is read again and sent with 200
StartRespond(r) ==
  /\ req[r].pc = "get2"
  /\ req[r].op = "start"
  /\ Respond(r, req[r], NoErr,
       [NoResp EXCEPT !.code = 200,
          !.message = Msg("Contest has started successfully", ""),
          !.id = req[r].id, !.data = contests[req[r].id]])
  /\ UNCHANGED <<contests, winners, now>>
  /\ UNCHANGED isShuttingDown
  /\ UNCHANGED middlewareVars

----------------------------------------------------------------------------
(* routes/bagBuilder.js                                                    *)

ExistingWinners == {i \in WinnerIds : winners[i].exists}
FreeWinnerIds == WinnerIds \ ExistingWinners

\* collection('bagBuilderWinners').limit(1).get(): the first document in the
\* collection's order, which is the order of the ids
FirstWinnerId ==
  CHOOSE i \in ExistingWinners : \A k \in ExistingWinners : i <= k

\* a query that never finds a document
checkWinnerExists_empty == [exists |-> FALSE, count |-> 0, winner |-> NoWinner]

checkWinnerExists ==
  [exists |-> ExistingWinners # {},
   count |-> IF ExistingWinners # {} THEN 1 ELSE 0,
   winner |-> IF ExistingWinners # {} THEN winners[FirstWinnerId] ELSE NoWinner]

\* the request arrives: winnerNameSchema is applied to the path parameter,
\* then checkWinnerExists is called
SetWinnerRoute(r, q0) ==
  /\ Idle(r)
  /\ \E name \in WinnerNameInputs :
       LET fresh == [q0 EXCEPT !.op = "setWinner", !.name = name]
           error == [NoErr EXCEPT !.name = "ValidationError",
                        !.message = Msg("Invalid winner name", "")]
       IN IF ~nameValid(name)
          THEN Respond(r, fresh, error,
                       handleFirebaseError(error, "set_bag_builder_winner"))
          ELSE /\ req' = [req EXCEPT ![r] = [fresh EXCEPT !.pc = "check"]]
               /\ sent' = NoneSent
  /\ UNCHANGED <<contests, winners, now>>
  /\ UNCHANGED isShuttingDown

SetWinner(r) ==
  /\ ~isShuttingDown
  /\ SetWinnerRoute(r, IdleReq)
  /\ UNCHANGED middlewareVars

\* the collection is queried; if it is empty winnerData is built and add()
\* is called
SetWinnerCheck(r) ==
  /\ req[r].pc = "check"
  /\ req[r].op = "setWinner"
  /\ LET winnerCheck == checkWinnerExists
         error == [NoErr EXCEPT !.name = "ValidationError",
                      !.code = "winner-already-exists",
                      !.message = Msg("A winner has already been set and cannot be changed", ""),
                      !.existingWinner = winnerCheck.winner]
     IN IF winnerCheck.exists
        THEN /\ Respond(r, req[r], error,
                        handleFirebaseError(error, "set_bag_builder_winner"))
             /\ now' = now
        ELSE \E t1 \in Dates(now) : \E t2 \in Dates(t1) :
               /\ req' = [req EXCEPT ![r].pc = "add",
                            ![r].wdata = [exists |-> TRUE,
                                          name |-> Str(Trim(req[r].name.str)),
                                          createdAt |-> t1,
                                          updatedAt |-> t2]]
               /\ now' = t2
               /\ sent' = sent
  /\ UNCHANGED <<contests, winners>>
  /\ UNCHANGED isShuttingDown
  /\ UNCHANGED middlewareVars

\* the store adds the document under an id it chooses; 201 is sent
SetWinnerAdd(r) ==
  /\ req[r].pc = "add"
  /\ req[r].op = "setWinner"
  /\ \E id \in FreeWinnerIds :
       /\ winners' = [winners EXCEPT ![id] = req[r].wdata]
       /\ Respond(r, [req[r] EXCEPT !.id = id], NoErr,
            [NoResp EXCEPT !.code = 201,
               !.message = Msg("Bag builder winner set successfully", ""),
               !.id = id, !.winner = req[r].wdata])
  /\ UNCHANGED <<contests, now>>
  /\ UNCHANGED isShuttingDown
  /\ UNCHANGED middlewareVars

\* the request arrives and checkWinnerExists is called
GetWinner(r) ==
  /\ Idle(r)
  /\ ~isShuttingDown
  /\ req' = [req EXCEPT ![r] = [IdleReq EXCEPT !.op = "getWinner", !.pc = "check"]]
  /\ sent' = NoneSent
  /\ UNCHANGED <<contests, winners, now>>
  /\ UNCHANGED isShuttingDown
  /\ UNCHANGED middlewareVars

\* an empty collection reported as a missing resource
NoWinnerYet_notFound ==
  createErrorResponse([NoErr EXCEPT !.message = Msg("No winner yet", "")],
                      "NOT_FOUND_ERROR", NoDetails)

\* res.json({success: true, message: 'No winner yet', data: null})
NoWinnerYet ==
  [NoResp EXCEPT !.code = 200, !.message = Msg("No winner yet", "")]

\* the collection is queried and the answer sent; data() of a document does
\* not hold its id, so data.id is undefined (0 here)
GetWinnerCheck(r) ==
  /\ req[r].pc = "check"
  /\ req[r].op = "getWinner"
  /\ LET winnerCheck == checkWinnerExists
     IN IF ~winnerCheck.exists
        THEN Respond(r, req[r], NoErr, NoWinnerYet)
        ELSE Respond(r, req[r], NoErr,
               [NoResp EXCEPT !.code = 200,
                  !.message = Msg("Winner retrieved successfully", ""),
                  !.winner = winnerCheck.winner])
  /\ UNCHANGED <<contests, winners, now>>
  /\ UNCHANGED isShuttingDown
  /\ UNCHANGED middlewareVars

----------------------------------------------------------------------------
(* Specifications                                                          *)

EmptyStore ==
  /\ contests = [i \in 1..MaxContests |-> NoDoc]
  /\ winners = [i \in WinnerIds |-> NoWinner]

\* the server listens and has served no request
Listening ==
  /\ req = [r \in Requests |-> IdleReq]
  /\ now = 1
  /\ sent = NoneSent
  /\ isShuttingDown = FALSE
  /\ blockedIPs = {}
  /\ ddosHits = [ip \in IPs |-> 0]
  /\ generalHits = [ip \in IPs |-> 0]
  /\ blockTimers = {}
  /\ listening = TRUE
  /\ shutdownLog = <<>>
  /\ elapsed = 0
  /\ signalsReceived = 0
  /\ exitCode = NotExited

\* the clients are connected and have sent no request
NoRequests ==
  /\ Listening
  /\ activeConnections = Connections
  /\ openSockets = Connections

Init == EmptyStore /\ NoRequests

ContestStep(r) ==
  \/ Create(r)
  \/ CreateAdd(r)
  \/ ListContests(r)
  \/ Get(r)
  \/ GetCheck(r)
  \/ UpdateNames(r)
  \/ UpdateNamesCheck(r)
  \/ UpdateNamesWrite(r)
  \/ UpdateNamesRespond(r)
  \/ Start(r)
  \/ StartCheck(r)
  \/ StartWrite(r)
  \/ StartRespond(r)

WinnerStep(r) ==
  \/ SetWinner(r)
  \/ SetWinnerCheck(r)
  \/ SetWinnerAdd(r)
  \/ GetWinner(r)
  \/ GetWinnerCheck(r)

\* Contest requests served concurrently, on a store that starts empty
Next == \E r \in Requests : ContestStep(r)

Spec == Init /\ [][Next]_vars

\* Winner requests served concurrently, on a store that starts empty
NextWinner == \E r \in Requests : WinnerStep(r)

SpecWinner == Init /\ [][NextWinner]_vars

\* Contest requests one after the other: a client that waits for each answer
NextSeq == ContestStep(1)

SpecSeq == Init /\ [][NextSeq]_vars

\* Documents that were in the contests collection before the service started,
\* written by other clients of the store
SeedStatuses == {"new", "active", "completed", "cancelled"}
SeedEventIds == {Str(<<"e">>), Undef}
SeedCosts == {Num(10), Num(0), Num(0 - 5), Str(<<"1", "0">>), Undef}
SeedNames ==
  { Arr(Roster(RosterSize)),
    Arr(Roster(RosterSize - 1)),
    Arr([Roster(RosterSize) EXCEPT ![1] = Str(<<>>)]),
    Arr([Roster(RosterSize) EXCEPT ![RosterSize] = Num(7)]),
    Arr([Roster(RosterSize) EXCEPT ![RosterSize - 1] = Str(<<" ">>),
                                   ![RosterSize] = Undef]),
    NotArr,
    NoNames }

SeedDoc(s, e, c, n) ==
  [exists |-> TRUE, status |-> s, eventId |-> e, costPerSquare |-> c,
   names |-> n, createdAt |-> 1, updatedAt |-> 1]

\* a document that can be started, the documents that differ from it in one
\* field, and documents that are wrong in several fields at once
SeedDocs ==
  {SeedDoc(s, Str(<<"e">>), Num(10), Arr(Roster(RosterSize))) : s \in SeedStatuses}
  \cup
  {SeedDoc("new", e, Num(10), Arr(Roster(RosterSize))) : e \in SeedEventIds}
  \cup
  {SeedDoc("new", Str(<<"e">>), c, Arr(Roster(RosterSize))) : c \in SeedCosts}
  \cup
  {SeedDoc("new", Str(<<"e">>), Num(10), n) : n \in SeedNames}
  \cup
  {SeedDoc(s, Undef, c, n) :
     s \in {"new", "completed"}, c \in {Num(10), Undef}, n \in {NoNames, NotArr}}

\* the first document of the collection is one of these, or there is none
InitSeeded ==
  /\ \E seed \in SeedDocs \cup {NoDoc} :
       contests = [i \in 1..MaxContests |-> IF i = 1 THEN seed ELSE NoDoc]
  /\ winners = [i \in WinnerIds |-> NoWinner]
  /\ NoRequests

\* Updates and starts, one after the other, on the documents that are there
NextSeeded ==
  \/ Get(1)
  \/ GetCheck(1)
  \/ UpdateNames(1)
  \/ UpdateNamesCheck(1)
  \/ UpdateNamesWrite(1)
  \/ UpdateNamesRespond(1)
  \/ Start(1)
  \/ StartCheck(1)
  \/ StartWrite(1)
  \/ StartRespond(1)

SpecSeeded == InitSeeded /\ [][NextSeeded]_vars

\* A collection that holds a document already and takes the documents of
\* Create besides it
StockDocs ==
  {SeedDoc(s, Str(<<"e">>), Num(10), n) :
     s \in SeedStatuses, n \in {NoNames, Arr(Roster(RosterSize))}}

InitStocked ==
  /\ \E seed \in StockDocs :
       contests = [i \in 1..(MaxContests + 1) |-> IF i = 1 THEN seed ELSE NoDoc]
  /\ winners = [i \in WinnerIds |-> NoWinner]
  /\ NoRequests

\* Creations and reads, one after the other
NextStocked ==
  \/ Create(1)
  \/ CreateAdd(1)
  \/ ListContests(1)
  \/ Get(1)
  \/ GetCheck(1)

SpecStocked == InitStocked /\ [][NextStocked]_vars

\* Winner requests one after the other: a client that waits for each answer
NextWinnerSeq == WinnerStep(1)

SpecWinnerSeq == Init /\ [][NextWinnerSeq]_vars

----------------------------------------------------------------------------
(* config/firebase.js: the store that is not configured                    *)

\* calling a method the stand-in object does not have
NotAFunction ==
  [NoErr EXCEPT !.name = "TypeError",
                !.message = Msg("is not a function", "")]

\* collection('contests').add is undefined on the stand-in: the call throws
\* inside the handler's try and the catch answers
MockCreateAdd(r) ==
  /\ req[r].pc = "add"
  /\ req[r].op = "create"
  /\ Respond(r, req[r], NotAFunction,
             handleFirebaseError(NotAFunction, "create_contest"))
  /\ UNCHANGED <<contests, winners, now>>
  /\ UNCHANGED isShuttingDown
  /\ UNCHANGED middlewareVars

\* collection('bagBuilderWinners').limit is undefined on the stand-in:
\* checkWinnerExists rejects and the catch of POST /winner/:name answers
MockSetWinnerCheck(r) ==
  /\ req[r].pc = "check"
  /\ req[r].op = "setWinner"
  /\ Respond(r, req[r], NotAFunction,
             handleFirebaseError(NotAFunction, "set_bag_builder_winner"))
  /\ UNCHANGED <<contests, winners, now>>
  /\ UNCHANGED isShuttingDown
  /\ UNCHANGED middlewareVars

\* the same for GET /winner
MockGetWinnerCheck(r) ==
  /\ req[r].pc = "check"
  /\ req[r].op = "getWinner"
  /\ Respond(r, req[r], NotAFunction,
             handleFirebaseError(NotAFunction, "get_bag_builder_winner"))
  /\ UNCHANGED <<contests, winners, now>>
  /\ UNCHANGED isShuttingDown
  /\ UNCHANGED middlewareVars

\* db is the stand-in object: doc(id).get() resolves to {exists: false} for
\* every id, which is what the handlers read of a collection without
\* documents; no document is ever written
InitUnconfigured == EmptyStore /\ NoRequests

\* The requests the unconfigured service serves, concurrently
UnconfiguredStep(r) ==
  \/ Create(r)
  \/ MockCreateAdd(r)
  \/ Get(r)
  \/ GetCheck(r)
  \/ UpdateNames(r)
  \/ UpdateNamesCheck(r)
  \/ Start(r)
  \/ StartCheck(r)
  \/ SetWinner(r)
  \/ MockSetWinnerCheck(r)
  \/ GetWinner(r)
  \/ MockGetWinnerCheck(r)

NextUnconfigured == \E r \in Requests : UnconfiguredStep(r)

SpecUnconfigured == InitUnconfigured /\ [][NextUnconfigured]_vars

----------------------------------------------------------------------------
(* middleware/gracefulShutdown.js                                          *)

\* a handler that starts the sequence on every signal
handleShutdown_noGuard(signal) ==
  /\ signalsReceived < MaxSignals
  /\ exitCode = NotExited
  /\ signalsReceived' = signalsReceived + 1
  /\ isShuttingDown' = TRUE
  /\ shutdownLog' = Append(shutdownLog, "stopAcceptingConnections")
  /\ listening' = FALSE
  /\ UNCHANGED <<activeConnections, openSockets, elapsed, exitCode>>
  /\ UNCHANGED <<contests, winners, req, now, sent>>
  /\ UNCHANGED limiterVars

\* a shutdown signal arrives: the first one sets the flag and begins the
\* sequence with stopAcceptingConnections, which calls server.close() and
\* waits for its callback; later ones are ignored. The connections that are
\* open go on sending requests
handleShutdown(signal) ==
  /\ signalsReceived < MaxSignals
  /\ exitCode = NotExited
  /\ signalsReceived' = signalsReceived + 1
  /\ IF isShuttingDown
     THEN UNCHANGED <<isShuttingDown, shutdownLog, listening>>
     ELSE /\ isShuttingDown' = TRUE
          /\ shutdownLog' = Append(shutdownLog, "stopAcceptingConnections")
          /\ listening' = FALSE
  /\ UNCHANGED <<activeConnections, openSockets, elapsed, exitCode>>
  /\ UNCHANGED <<contests, winners, req, now, sent>>
  /\ UNCHANGED limiterVars

\* the signal that begins the shutdown
FirstSignal ==
  /\ ~isShuttingDown
  /\ \E signal \in Signals : handleShutdown(signal)

\* the step of handleShutdown that is running
Step ==
  IF shutdownLog = <<>> THEN "running" ELSE shutdownLog[Len(shutdownLog)]

\* a client connects: the socket is tracked, or destroyed during shutdown
handleConnection(c) ==
  /\ listening
  /\ exitCode = NotExited
  /\ c \notin activeConnections
  /\ IF isShuttingDown
     THEN UNCHANGED <<activeConnections, openSockets>>
     ELSE /\ activeConnections' = activeConnections \cup {c}
          /\ openSockets' = openSockets \cup {c}
  /\ UNCHANGED <<listening, shutdownLog, elapsed, signalsReceived, exitCode>>
  /\ UNCHANGED <<contests, winners, req, now, sent, isShuttingDown>>
  /\ UNCHANGED limiterVars

\* the client ends a connection; the server counts it no longer
SocketEnds(c) ==
  /\ exitCode = NotExited
  /\ c \in openSockets
  /\ openSockets' = openSockets \ {c}
  /\ UNCHANGED <<activeConnections, listening, shutdownLog, elapsed,
                 signalsReceived, exitCode>>
  /\ UNCHANGED <<contests, winners, req, now, sent, isShuttingDown>>
  /\ UNCHANGED limiterVars

\* the 'close' event of a socket that has ended: it is tracked no longer
handleDisconnection(c) ==
  /\ exitCode = NotExited
  /\ c \in activeConnections \ openSockets
  /\ activeConnections' = activeConnections \ {c}
  /\ UNCHANGED <<openSockets, listening, shutdownLog, elapsed,
                 signalsReceived, exitCode>>
  /\ UNCHANGED <<contests, winners, req, now, sent, isShuttingDown>>
  /\ UNCHANGED limiterVars

\* a step of the sequence ends and the next one begins
Begin(step) ==
  /\ shutdownLog' = Append(shutdownLog, step)
  /\ UNCHANGED <<listening, signalsReceived, exitCode>>
  /\ UNCHANGED <<contests, winners, req, now, sent, isShuttingDown>>
  /\ UNCHANGED limiterVars

\* the callback of server.close(): the server calls it when every
\* connection has ended; waitForActiveRequests begins
stopAcceptingConnections ==
  /\ Step = "stopAcceptingConnections"
  /\ openSockets = {}
  /\ Begin("waitForActiveRequests")
  /\ elapsed' = 0
  /\ UNCHANGED <<activeConnections, openSockets>>

\* one check interval of the loop of waitForActiveRequests
waitForActiveRequests ==
  /\ Step = "waitForActiveRequests"
  /\ activeConnections # {} /\ elapsed < ShutdownTimeout
  /\ elapsed' = elapsed + 1
  /\ UNCHANGED <<activeConnections, openSockets, listening, shutdownLog,
                 signalsReceived, exitCode>>
  /\ UNCHANGED <<contests, winners, req, now, sent, isShuttingDown>>
  /\ UNCHANGED limiterVars

\* the loop of waitForActiveRequests is over: the sockets still tracked are
\* destroyed, and closeDatabaseConnections begins
forceClose ==
  /\ Step = "waitForActiveRequests"
  /\ ~(activeConnections # {} /\ elapsed < ShutdownTimeout)
  /\ openSockets' = openSockets \ activeConnections
  /\ Begin("closeDatabaseConnections")
  /\ UNCHANGED <<activeConnections, elapsed>>

\* global.firebaseApp is never set, so nothing is closed; closeServer begins
\* and calls server.close() again
closeDatabaseConnections ==
  /\ Step = "closeDatabaseConnections"
  /\ Begin("closeServer")
  /\ UNCHANGED <<activeConnections, openSockets, elapsed>>

\* the callback of the second server.close(); exitProcess begins
closeServer ==
  /\ Step = "closeServer"
  /\ openSockets = {}
  /\ Begin("exitProcess")
  /\ UNCHANGED <<activeConnections, openSockets, elapsed>>

\* the timer of exitProcess fires: process.exit(0)
exitProcess ==
  /\ Step = "exitProcess"
  /\ exitCode = NotExited
  /\ exitCode' = 0
  /\ UNCHANGED <<activeConnections, openSockets, listening, shutdownLog,
                 elapsed, signalsReceived>>
  /\ UNCHANGED <<contests, winners, req, now, sent, isShuttingDown>>
  /\ UNCHANGED limiterVars

\* the server after construction: it listens, no client is connected
InitClosing ==
  /\ EmptyStore
  /\ Listening
  /\ activeConnections = {}
  /\ openSockets = {}

\* Clients connecting and leaving, shutdown signals, and the shutdown
\* sequence
NextClosing ==
  \/ \E c \in Connections : handleConnection(c)
  \/ \E c \in Connections : SocketEnds(c)
  \/ \E c \in Connections : handleDisconnection(c)
  \/ \E signal \in Signals : handleShutdown(signal)
  \/ stopAcceptingConnections
  \/ waitForActiveRequests
  \/ forceClose
  \/ closeDatabaseConnections
  \/ closeServer
  \/ exitProcess

SpecClosing == InitClosing /\ [][NextClosing]_vars

\* The timers and callbacks of the sequence run when they are due, and an
\* ended socket emits its 'close' event; nothing makes a client end its
\* connection
SpecClosingFair ==
  /\ SpecClosing
  /\ WF_vars(stopAcceptingConnections)
  /\ WF_vars(waitForActiveRequests)
  /\ WF_vars(forceClose)
  /\ WF_vars(closeDatabaseConnections)
  /\ WF_vars(closeServer)
  /\ WF_vars(exitProcess)
  /\ \A c \in Connections : WF_vars(handleDisconnection(c))

\* the operations a request can name
RequestOps ==
  {"create", "list", "get", "updateNames", "start", "setWinner", "getWinner",
   "health"}

ShuttingDown ==
  [NoResp EXCEPT !.code = 503,
                 !.error = "SERVICE_UNAVAILABLE",
                 !.message = Msg("Server is shutting down", "")]

\* the middleware every request passes before its route: during shutdown
\* it answers the request itself
trackActiveRequests(r) ==
  /\ Idle(r)
  /\ isShuttingDown
  /\ \E op \in RequestOps :
       Respond(r, [IdleReq EXCEPT !.op = op], NoErr, ShuttingDown)
  /\ UNCHANGED <<contests, winners, now, isShuttingDown>>
  /\ UNCHANGED middlewareVars

\* GET /health, reached through trackActiveRequests
HealthRoute(r, q0) ==
  /\ Idle(r)
  /\ Respond(r, [q0 EXCEPT !.op = "health"], NoErr,
             [NoResp EXCEPT !.code = 200,
                            !.message = Msg("Service is running", "")])
  /\ UNCHANGED <<contests, winners, now, isShuttingDown>>

healthCheckWithShutdown(r) ==
  /\ ~isShuttingDown
  /\ HealthRoute(r, IdleReq)
  /\ UNCHANGED middlewareVars

\* The requests of the service and the shutdown signal
ShutdownStep(r) ==
  \/ Create(r)
  \/ CreateAdd(r)
  \/ Get(r)
  \/ GetCheck(r)
  \/ healthCheckWithShutdown(r)
  \/ trackActiveRequests(r)

NextShutdown ==
  \/ \E r \in Requests : ShutdownStep(r)
  \/ FirstSignal

SpecShutdown == Init /\ [][NextShutdown]_vars

----------------------------------------------------------------------------
(* The store that fails                                                    *)

\* the rejection of a store call that could not be carried out
Unavailable ==
  [NoErr EXCEPT !.name = "Error", !.code = "unavailable",
                !.message = Msg("The service is currently unavailable", "")]

\* an awaited store call of PUT /:id rejects (the first get, the update or
\* the get after it): the call has no effect and the catch answers
UpdateNamesStoreFails(r) ==
  /\ req[r].op = "updateNames"
  /\ req[r].pc \in {"get1", "update", "get2"}
  /\ Respond(r, req[r], Unavailable,
             handleFirebaseError(Unavailable, "update_contest"))
  /\ UNCHANGED <<contests, winners, now, isShuttingDown>>
  /\ UNCHANGED middlewareVars

\* the same for POST /:id/start
StartStoreFails(r) ==
  /\ req[r].op = "start"
  /\ req[r].pc \in {"get1", "update", "get2"}
  /\ Respond(r, req[r], Unavailable,
             handleFirebaseError(Unavailable, "start_contest"))
  /\ UNCHANGED <<contests, winners, now, isShuttingDown>>
  /\ UNCHANGED middlewareVars

\* Updates and starts, one after the other, on a store whose calls can fail
NextFaulty ==
  \/ UpdateNames(1)
  \/ UpdateNamesCheck(1)
  \/ UpdateNamesWrite(1)
  \/ UpdateNamesRespond(1)
  \/ UpdateNamesStoreFails(1)
  \/ Start(1)
  \/ StartCheck(1)
  \/ StartWrite(1)
  \/ StartRespond(1)
  \/ StartStoreFails(1)

SpecFaulty == InitSeeded /\ [][NextFaulty]_vars

----------------------------------------------------------------------------
(* The middleware of server.js before the routes: blockSuspiciousIPs,      *)
(* ddosLimiter, generalLimiter, validateContentType, trackActiveRequests.  *)
(* The requests have an allowed origin, sizes within the limits and        *)
(* nothing the security middleware refuses.                                *)

\* Content-Type headers: JSON, another type, no header
ContentTypes == {"application/json", "text/plain", ""}

\* the operations whose requests are followed through the middleware
IngressOps == {"start", "setWinner", "health"}

\* req.method of the route of an operation
Method(op) ==
  CASE op \in {"create", "start", "setWinner"} -> "POST"
    [] op = "updateNames" -> "PUT"
    [] OTHER -> "GET"

AccessDenied ==
  [NoResp EXCEPT !.code = 403,
                 !.error = "Access Denied",
                 !.message = Msg("Your IP has been temporarily blocked due to suspicious activity.", "")]

DdosProtection ==
  [NoResp EXCEPT !.code = 429,
                 !.error = "DDoS Protection",
                 !.message = Msg("Too many requests detected, please slow down.", "")]

TooManyRequests ==
  [NoResp EXCEPT !.code = 429,
                 !.error = "Too Many Requests",
                 !.message = Msg("Too many requests from this IP, please try again later.", "")]

BadRequest ==
  [NoResp EXCEPT !.code = 400,
                 !.error = "Bad Request",
                 !.message = Msg("Content-Type must be application/json", "")]

\* a middleware that lets every address through
blockSuspiciousIPs_never(q) == FALSE

\* blockedIPs.has(clientIP): the request is answered 403
blockSuspiciousIPs(q) == q.ip \in blockedIPs

\* the limiter counts the request and finds the count above max (max
\* requests were counted in the window before this one): its handler runs
ddosLimiter(q) == ddosHits[q.ip] >= DdosLimit

generalLimiter(q) == generalHits[q.ip] >= GeneralLimit

\* the hit counters with one more hit of an address; a count above max is
\* kept as max
Hit(hits, ip, max) ==
  [hits EXCEPT ![ip] = IF @ >= max THEN @ ELSE @ + 1]

\* a check of the method alone
validateContentType_bodyOnly(q) ==
  /\ Method(q.op) = "PUT"
  /\ q.contentType # "application/json"

\* POST or PUT without a Content-Type that includes application/json: the
\* request is answered 400
validateContentType(q) ==
  /\ Method(q.op) \in {"POST", "PUT"}
  /\ q.contentType # "application/json"

\* a middleware that never looks at the shutdown flag
shutdownInProgress_never == FALSE

\* global.gracefulShutdown && global.gracefulShutdown.isShuttingDown: the
\* request is answered 503
shutdownInProgress == isShuttingDown

\* a middleware answers the request itself
Refuse(r, q, resp) ==
  /\ Respond(r, q, NoErr, resp)
  /\ UNCHANGED <<contests, winners, now, isShuttingDown>>

\* the route of the operation
Route(r, q0, op) ==
  CASE op = "start" -> StartRoute(r, q0)
    [] op = "setWinner" -> SetWinnerRoute(r, q0)
    [] OTHER -> HealthRoute(r, q0)

\* a request arrives and runs through the middleware in the order of
\* registration, up to the first await of its route
Receive(r) ==
  /\ Idle(r)
  /\ UNCHANGED shutdownVars
  /\ \E ip \in IPs, op \in IngressOps, ct \in ContentTypes :
       LET q0 == [IdleReq EXCEPT !.ip = ip, !.contentType = ct]
           q == [q0 EXCEPT !.op = op]
       IN IF blockSuspiciousIPs(q)
          THEN /\ Refuse(r, q, AccessDenied)
               /\ UNCHANGED limiterVars
          ELSE IF ddosLimiter(q)
          THEN /\ Refuse(r, q, DdosProtection)
               /\ blockedIPs' = blockedIPs \cup {ip}
               /\ blockTimers' =
                    blockTimers \cup {[ip |-> ip, left |-> BlockTicks]}
               /\ ddosHits' = Hit(ddosHits, ip, DdosLimit)
               /\ generalHits' = generalHits
          ELSE /\ ddosHits' = Hit(ddosHits, ip, DdosLimit)
               /\ generalHits' = Hit(generalHits, ip, GeneralLimit)
               /\ UNCHANGED <<blockedIPs, blockTimers>>
               /\ IF generalLimiter(q)
                  THEN Refuse(r, q, TooManyRequests)
                  ELSE IF validateContentType(q)
                  THEN Refuse(r, q, BadRequest)
                  ELSE IF shutdownInProgress
                  THEN Refuse(r, q, ShuttingDown)
                  ELSE Route(r, q0, op)

\* half an hour passes: the windows of both limiters (one minute, fifteen
\* minutes) are over, and the timers that are due delete their address
TimePasses ==
  /\ blockTimers # {}
  /\ UNCHANGED shutdownVars
  /\ blockTimers' =
       {[t EXCEPT !.left = @ - 1] : t \in {u \in blockTimers : u.left > 1}}
  /\ blockedIPs' = blockedIPs \ {t.ip : t \in {u \in blockTimers : u.left = 1}}
  /\ ddosHits' = [ip \in IPs |-> 0]
  /\ generalHits' = [ip \in IPs |-> 0]
  /\ UNCHANGED <<contests, winners, req, now, sent, isShuttingDown>>

\* the window of a limiter is over for an address
WindowEnds(ip) ==
  /\ ddosHits[ip] > 0 \/ generalHits[ip] > 0
  /\ UNCHANGED shutdownVars
  /\ \/ /\ ddosHits' = [ddosHits EXCEPT ![ip] = 0]
        /\ generalHits' = generalHits
     \/ /\ ddosHits' = [ddosHits EXCEPT ![ip] = 0]
        /\ generalHits' = [generalHits EXCEPT ![ip] = 0]
  /\ UNCHANGED <<blockedIPs, blockTimers>>
  /\ UNCHANGED <<contests, winners, req, now, sent, isShuttingDown>>

InitIngress == EmptyStore /\ NoRequests

\* One client connection at a time, its requests going through the
\* middleware; time passing; a shutdown signal
NextIngress ==
  \/ Receive(1)
  \/ StartCheck(1)
  \/ SetWinnerCheck(1)
  \/ SetWinnerAdd(1)
  \/ FirstSignal
  \/ TimePasses
  \/ \E ip \in IPs : WindowEnds(ip)

SpecIngress == InitIngress /\ [][NextIngress]_vars

----------------------------------------------------------------------------
(* Properties                                                              *)

\* request r takes the step that follows its first read of the document
Checks(r, op) ==
  /\ req[r].op = op
  /\ req[r].pc = "get1"
  /\ req'[r].pc # "get1"

\* request r takes the step in which the store applies its update()
Writes(r, op) ==
  /\ req[r].op = op
  /\ req[r].pc = "update"
  /\ req'[r].pc = "get2"

\* request r sends its answer in this step
Answers(r, op) ==
  /\ req[r].op = op
  /\ req'[r].pc = "idle"
  /\ sent'.by = r

IsString(v) == v.type = "string"

\* names is an array of exactly the required number of strings, each
\* satisfying Ok
FullRoster(names, Ok(_)) ==
  /\ names.kind = "array"
  /\ Len(names.items) = RequiredNames
  /\ \A i \in DOMAIN names.items : IsString(names.items[i]) /\ Ok(names.items[i])

NonEmpty(v) == v.str # <<>>
NonBlank(v) == Trim(v.str) # <<>>

PositiveNumber(v) == v.type = "number" /\ v.num > 0
Present(v) == v.type # "undefined"

\* The preconditions of Start as the specification words them
StartPreconditions(doc) ==
  /\ doc.status = "new"
  /\ Present(doc.eventId)
  /\ PositiveNumber(doc.costPerSquare)
  /\ FullRoster(doc.names, NonEmpty)

\* The same with an entry counting as empty when it is empty after trimming
StartPreconditionsTrimmed(doc) ==
  /\ doc.status = "new"
  /\ Present(doc.eventId)
  /\ PositiveNumber(doc.costPerSquare)
  /\ FullRoster(doc.names, NonBlank)

\* Start on an existing contest goes on to write exactly when Pre holds of the
\* document it read; when it does not, the answer is an error and the
\* collection is as it was; when it does, the write sets the status to active
StartSucceedsIff(Pre(_)) ==
  \A r \in Requests :
    /\ (Checks(r, "start") /\ contests[req[r].id].exists) =>
         /\ (req'[r].pc = "update") <=> Pre(contests[req[r].id])
         /\ (req'[r].pc # "update") =>
              /\ contests' = contests
              /\ Answers(r, "start")
              /\ sent'.resp.code >= 400
    /\ Writes(r, "start") => contests'[req[r].id].status = "active"
    /\ (Answers(r, "start") /\ req[r].pc = "get2") => sent'.resp.code = 200

\* C1 as claimed: Start succeeds if and only if the stored contest has status
\* new, an eventId, a positive numeric costPerSquare and names with exactly
\* the required number of non-empty strings; otherwise the record is unchanged.
C1_StartIffPreconditions == [][StartSucceedsIff(StartPreconditions)]_vars

\* C1 amended: Start succeeds if and only if the stored contest has status
\* new, an eventId, a positive numeric costPerSquare and names with exactly
\* the required number of strings that are non-empty after trimming
\* whitespace; otherwise the record is unchanged.
C1_StartIffPreconditionsTrimmed ==
  [][StartSucceedsIff(StartPreconditionsTrimmed)]_vars

\* A Start was refused only because an entry of a full roster of non-empty
\* strings is blank
C1_RefusedForBlankName ==
  /\ sent.op = "start"
  /\ sent.resp.code >= 400
  /\ Len(sent.err.validationErrors) = 1
  /\ sent.err.validationErrors[1].kind = "names.entry"
  /\ contests[sent.id].status = "new"
  /\ FullRoster(contests[sent.id].names, NonEmpty)

\* C2: UpdateNames on an existing contest with valid names goes on to write
\* if and only if the status it reads is new; a call that finds another status
\* is answered with an error naming that status and changes nothing in the
\* collection; the write of a successful call stores the names it was given.
C2_UpdateNamesIffNew ==
  [][\A r \in Requests :
       /\ (/\ Checks(r, "updateNames")
           /\ req[r].names.kind = "array"
           /\ contests[req[r].id].exists) =>
            /\ (req'[r].pc = "update") <=> (contests[req[r].id].status = "new")
            /\ (req'[r].pc # "update") =>
                 /\ contests' = contests
                 /\ Answers(r, "updateNames")
                 /\ sent'.resp.code >= 400
                 /\ sent'.err.currentStatus = contests[req[r].id].status
       /\ Writes(r, "updateNames") =>
            /\ contests'[req[r].id].names = req[r].upd.names
            /\ contests'[req[r].id].status = contests[req[r].id].status
       /\ (Answers(r, "updateNames") /\ req[r].pc = "get2") =>
            sent'.resp.code = 200]_vars

\* An UpdateNames was refused on a contest that is active and has its names
C2_RefusedOnActive ==
  /\ sent.op = "updateNames"
  /\ sent.resp.code >= 400
  /\ sent.err.currentStatus = "active"
  /\ contests[sent.id].status = "active"
  /\ contests[sent.id].names.kind = "array"

\* C3: in every reachable state, whatever the interleaving of the requests, a
\* contest whose status is active has names of exactly the required number of
\* non-empty entries.
C3_ActiveHasFullRoster ==
  \A id \in ContestIds :
    (contests[id].exists /\ contests[id].status = "active") =>
      FullRoster(contests[id].names, NonEmpty)

\* C4: once the stored status of a contest is not new, no step of any request
\* changes its eventId, costPerSquare or names.
C4_FrozenOnceNotNew ==
  [][\A id \in ContestIds :
       (contests[id].exists /\ contests[id].status # "new") =>
         /\ contests'[id].eventId = contests[id].eventId
         /\ contests'[id].costPerSquare = contests[id].costPerSquare
         /\ contests'[id].names = contests[id].names]_vars

\* C5: a contest comes to exist with status new, it never ceases to exist,
\* and the only change of a stored status is from new to active, so that
\* active is never left and completed or cancelled are never written.
C5_OnlyNewToActive ==
  [][\A id \in ContestIds :
       /\ (~contests[id].exists /\ contests'[id].exists) =>
            contests'[id].status = "new"
       /\ contests[id].exists =>
            /\ contests'[id].exists
            /\ contests'[id].status # contests[id].status =>
                 (contests[id].status = "new" /\ contests'[id].status = "active")]_vars

\* The write of an UpdateNames has landed on a contest that was already
\* active: a Start on it has answered with a success carrying other names
\* than the store holds now, which are those of the UpdateNames that is about
\* to answer; the status is still active
C5_WriteOnActive ==
  \E r \in Requests :
    /\ req[r].op = "updateNames"
    /\ req[r].pc = "get2"
    /\ sent.op = "start"
    /\ sent.by # r
    /\ sent.id = req[r].id
    /\ sent.resp.code = 200
    /\ sent.resp.data.names # req[r].upd.names
    /\ contests[req[r].id].status = "active"
    /\ contests[req[r].id].names = req[r].upd.names

\* number of positions of a that hold x
Count(a, x) == Cardinality({i \in DOMAIN a : a[i] = x})

Range(a) == {a[i] : i \in DOMAIN a}

\* same length and the same multiset of elements
IsPermutation(a, b) ==
  /\ Len(a) = Len(b)
  /\ \A x \in Range(a) \cup Range(b) : Count(a, x) = Count(b, x)

\* C6: the write of a Start leaves stored names that are a permutation of the
\* names stored before the call (same length, same multiset of elements,
\* duplicates kept), whatever the draws were, and the answer is a success.
C6_StartPermutes ==
  [][\A r \in Requests :
       /\ Writes(r, "start") =>
            /\ contests'[req[r].id].names.kind = "array"
            /\ IsPermutation(contests'[req[r].id].names.items,
                             contests[req[r].id].names.items)
       /\ (Answers(r, "start") /\ req[r].pc = "get2") =>
            /\ sent'.resp.code = 200
            /\ sent'.resp.data.names = contests[req[r].id].names]_vars

\* A Start has succeeded and left the roster of distinct names in another
\* order than the one that was stored before it
C6_Reordered ==
  /\ sent.op = "start"
  /\ sent.resp.code = 200
  /\ contests[sent.id].status = "active"
  /\ contests[sent.id].names.items # Roster(RosterSize)
  /\ Range(contests[sent.id].names.items) = Range(Roster(RosterSize))

RECURSIVE Factorial(_)
Factorial(n) == IF n <= 1 THEN 1 ELSE n * Factorial(n - 1)

Distinct(a) == \A i, k \in DOMAIN a : i # k => a[i] # a[k]

\* C7: for stored names that are distinct, the shuffle of Start (i from
\* length-1 down to 1, j drawn in 0..i, positions i and j swapped) maps the
\* combinations of draws one to one onto the orderings of the names: two
\* different combinations give different orderings, every result is an
\* ordering of the names, and there are length! of them.
C7_ShuffleIsBijection ==
  \A id \in ContestIds :
    LET items == contests[id].names.items
        n == Len(items)
    IN (contests[id].exists /\ contests[id].names.kind = "array"
          /\ Distinct(items)) =>
         /\ \A d1, d2 \in DrawSeqs(n) :
              ShuffleNames(items, d1) = ShuffleNames(items, d2) => d1 = d2
         /\ \A d \in DrawSeqs(n) : IsPermutation(ShuffleNames(items, d), items)
         /\ Cardinality({ShuffleNames(items, d) : d \in DrawSeqs(n)})
              = Factorial(n)

\* A full roster of distinct names is stored and a Start has shuffled it
C7_DistinctRosterShuffled ==
  \E r \in Requests :
    /\ req[r].op = "start"
    /\ req[r].pc = "update"
    /\ contests[req[r].id].names.kind = "array"
    /\ Len(contests[req[r].id].names.items) = RequiredNames
    /\ Distinct(contests[req[r].id].names.items)
    /\ req[r].upd.names.items # contests[req[r].id].names.items

\* C8: a Start that has passed its check writes its own shuffle and status
\* active whatever the store holds by then, and answers with a success; so
\* of two Starts that both passed the check before either wrote, both succeed
\* and the store keeps the names of the one that wrote last.
C8_LastStartWins ==
  [][\A r \in Requests :
       /\ Writes(r, "start") =>
            /\ contests'[req[r].id].names = req[r].upd.names
            /\ contests'[req[r].id].status = "active"
       /\ (Answers(r, "start") /\ req[r].pc = "get2") =>
            sent'.resp.code = 200]_vars

\* Two Starts on one contest passed the check; one has answered with a
\* success carrying its shuffle, the other has since written a different
\* shuffle, which is what the store holds now
C8_TwoStartsBothWrote ==
  \E r \in Requests :
    /\ req[r].op = "start"
    /\ req[r].pc = "get2"
    /\ sent.op = "start"
    /\ sent.by # r
    /\ sent.id = req[r].id
    /\ sent.resp.code = 200
    /\ sent.resp.data.names # req[r].upd.names
    /\ contests[req[r].id].names = req[r].upd.names

StatusError(status) == VErr("status", status, 0)

C10_AtMostOneWinner == Cardinality(ExistingWinners) <= 1

\* request r takes the step that follows its query of the winners collection
ChecksWinner(r, op) ==
  /\ req[r].op = op
  /\ req[r].pc = "check"
  /\ req'[r].pc # "check"

\* request r takes the step in which the store adds its winner document
AddsWinner(r) ==
  /\ req[r].op = "setWinner"
  /\ req[r].pc = "add"
  /\ req'[r].pc = "idle"

\* C11: of SetWinner calls made one after the other with names the validation
\* accepts, the call that finds the collection empty goes on to add one
\* record and is answered 201; a call that finds a record fails with the
\* error winner-already-exists, whatever its name, and the collection stays
\* as it was, the first record included.
C11_OnlyFirstSetWinner ==
  [][\A r \in Requests :
       /\ ChecksWinner(r, "setWinner") =>
            /\ winners' = winners
            /\ IF ExistingWinners = {}
               THEN req'[r].pc = "add"
               ELSE /\ Answers(r, "setWinner")
                    /\ sent'.resp.code >= 400
                    /\ sent'.err.code = "winner-already-exists"
       /\ AddsWinner(r) =>
            /\ ExistingWinners = {}
            /\ \E id \in WinnerIds :
                 winners' = [winners EXCEPT ![id] = req[r].wdata]
            /\ sent'.resp.code = 201]_vars

\* A SetWinner was refused because a record exists, and that record is the
\* only one
C11_SecondSetWinnerRefused ==
  /\ sent.op = "setWinner"
  /\ sent.err.code = "winner-already-exists"
  /\ sent.resp.code >= 400
  /\ Cardinality(ExistingWinners) = 1

\* request r takes the step in which the store adds its contest document
AddsContest(r) ==
  /\ req[r].op = "create"
  /\ req[r].pc = "add"
  /\ req'[r].pc = "idle"

\* a body that meets the constraints as it stands: an eventId of 1 to 100
\* letters, digits, hyphens and underscores and a positive costPerSquare
\* within the ceiling
ValidCreateBody(body) ==
  /\ eventIdValid(body.eventId)
  /\ costPerSquareValid(body.costPerSquare)

ExistingContests == {i \in ContestIds : contests[i].exists}

\* C12: the add of a Create whose body was valid puts exactly one document
\* in the collection, under an id that was free, with status new, the eventId
\* and costPerSquare of the body and no names; every other document stays as
\* it was; the answer is 201 with that document and its id.
C12_CreatePersistsNew ==
  [][\A r \in Requests :
       (AddsContest(r) /\ ValidCreateBody(req[r].body)) =>
         \E id \in ContestIds :
           /\ ~contests[id].exists
           /\ contests'[id].exists
           /\ \A other \in ContestIds \ {id} : contests'[other] = contests[other]
           /\ contests'[id].status = "new"
           /\ contests'[id].eventId = req[r].body.eventId
           /\ contests'[id].costPerSquare = req[r].body.costPerSquare
           /\ contests'[id].names = NoNames
           /\ sent'.resp.code = 201
           /\ sent'.resp.id = id
           /\ sent'.resp.data = contests'[id]]_vars

\* A Create has been answered 201 for a document added next to an active
\* contest that has its roster
C12_CreatedBesideExisting ==
  /\ sent.op = "create"
  /\ sent.resp.code = 201
  /\ contests[sent.resp.id].status = "new"
  /\ \E other \in ExistingContests \ {sent.resp.id} :
       /\ contests[other].status = "active"
       /\ contests[other].names = Arr(Roster(RosterSize))

\* C13: a GetWinner whose query finds no winner record is answered 200 with
\* the message that there is no winner yet and null data, from no error, and
\* neither collection changes.
C13_NoWinnerIsNotAnError ==
  [][\A r \in Requests :
       (ChecksWinner(r, "getWinner") /\ ExistingWinners = {}) =>
         /\ Answers(r, "getWinner")
         /\ sent'.resp.code = 200
         /\ sent'.resp.error = ""
         /\ sent'.resp.message = Msg("No winner yet", "")
         /\ sent'.resp.winner = NoWinner
         /\ sent'.err = NoErr
         /\ winners' = winners
         /\ contests' = contests]_vars

\* A GetWinner has been answered that there is no winner yet, and the
\* collection is empty
C13_AskedBeforeAnyWinner ==
  /\ sent.op = "getWinner"
  /\ sent.resp.message = Msg("No winner yet", "")
  /\ ExistingWinners = {}

\* C14: a GetWinner made after a SetWinner has succeeded is answered 200 with
\* the record of the collection: the id under which SetWinner stored it and
\* its name.
C14_GetWinnerReturnsTheRecord ==
  [][\A r \in Requests :
       (ChecksWinner(r, "getWinner") /\ ExistingWinners # {}) =>
         /\ Answers(r, "getWinner")
         /\ sent'.resp.code = 200
         /\ sent'.resp.id = FirstWinnerId
         /\ sent'.resp.winner.name = winners[FirstWinnerId].name]_vars

\* C18: a SetWinner whose query finds a winner record is answered 400 with
\* that record in the payload.
C18_AlreadyExistsIs400 ==
  [][\A r \in Requests :
       (ChecksWinner(r, "setWinner") /\ ExistingWinners # {}) =>
         /\ Answers(r, "setWinner")
         /\ sent'.resp.code = 400
         /\ sent'.resp.details.existingWinner = winners[FirstWinnerId]]_vars

\* C15: an UpdateNames that finds the contest in a status other than new is
\* answered 400 with that status as currentStatus in the payload.
C15_InvalidStateIs400 ==
  [][\A r \in Requests :
       (Checks(r, "updateNames") /\ contests[req[r].id].exists
          /\ contests[req[r].id].status # "new") =>
         /\ Answers(r, "updateNames")
         /\ sent'.resp.code = 400
         /\ sent'.resp.details.currentStatus = contests[req[r].id].status]_vars

\* C16: a Start whose check of an existing contest finds a violation is
\* answered 400 with the list of violations and the summary of the contest
\* (id, eventId, costPerSquare, namesCount, status) in the payload; for an
\* active contest the list holds the message about the status.
C16_ValidationFailedIs400 ==
  [][\A r \in Requests :
       LET doc == contests[req[r].id]
       IN (Checks(r, "start") /\ doc.exists /\ req'[r].pc # "update") =>
            /\ Answers(r, "start")
            /\ sent'.resp.code = 400
            /\ sent'.resp.details.validationErrors # <<>>
            /\ sent'.resp.details.contestData =
                 [id |-> req[r].id, eventId |-> doc.eventId,
                  costPerSquare |-> doc.costPerSquare,
                  namesCount |-> Len(doc.names.items), status |-> doc.status]
            /\ doc.status = "active" =>
                 \E i \in DOMAIN sent'.resp.details.validationErrors :
                   sent'.resp.details.validationErrors[i] = StatusError("active")]_vars

\* the entries of a list of violations that are of one of the given kinds
OfKinds(errs, kinds) == {i \in DOMAIN errs : errs[i].kind \in kinds}

NamesKinds == {"names.missing", "names.length", "names.entry"}

\* positions (from 0) of the entries of a roster that are no string or are
\* blank
BadPositions(items) ==
  {i \in 0..(Len(items) - 1) :
     ~IsString(items[i + 1]) \/ ~NonBlank(items[i + 1])}

\* errs lists the violations of doc: one entry for each of the four
\* preconditions that doc violates and none for the others; the entry for the
\* names tells a missing array from a wrong length from a bad entry, and for
\* a bad entry gives the first bad position alone
ListsEveryViolation(errs, doc) ==
  /\ Cardinality(OfKinds(errs, {"status"})) = IF doc.status # "new" THEN 1 ELSE 0
  /\ Cardinality(OfKinds(errs, {"eventId"})) = IF Present(doc.eventId) THEN 0 ELSE 1
  /\ Cardinality(OfKinds(errs, {"costPerSquare"})) =
       IF PositiveNumber(doc.costPerSquare) THEN 0 ELSE 1
  /\ Cardinality(OfKinds(errs, NamesKinds)) =
       IF FullRoster(doc.names, NonBlank) THEN 0 ELSE 1
  /\ Len(errs) = Cardinality(OfKinds(errs, {"status", "eventId", "costPerSquare"}
                                             \cup NamesKinds))
  /\ \A i \in OfKinds(errs, {"status"}) : errs[i].status = doc.status
  /\ \A i \in OfKinds(errs, NamesKinds) :
       errs[i].kind =
         IF doc.names.kind # "array" THEN "names.missing"
         ELSE IF Len(doc.names.items) # RequiredNames THEN "names.length"
         ELSE "names.entry"
  /\ \A i \in OfKinds(errs, {"names.length"}) : errs[i].n = Len(doc.names.items)
  /\ \A i \in OfKinds(errs, {"names.entry"}) :
       /\ errs[i].n \in BadPositions(doc.names.items)
       /\ \A k \in BadPositions(doc.names.items) : errs[i].n <= k

\* C17: the list of violations with which a Start is refused holds one entry
\* for every violated one of the four preconditions, however many are
\* violated at once, and within the names only the first offending index.
C17_AllViolationsCollected ==
  [][\A r \in Requests :
       LET doc == contests[req[r].id]
       IN (Checks(r, "start") /\ doc.exists /\ req'[r].pc # "update") =>
            /\ Answers(r, "start")
            /\ sent'.err.validationErrors # <<>>
            /\ ListsEveryViolation(sent'.err.validationErrors, doc)]_vars

\* A Start was refused with all four preconditions violated at once
C17_FourViolationsAtOnce ==
  /\ sent.op = "start"
  /\ Len(sent.err.validationErrors) = 4
  /\ contests[sent.id].status = "completed"

\* A Start was refused for a roster with two bad entries, of which the first
\* is reported
C17_FirstOfTwoBadEntries ==
  /\ sent.op = "start"
  /\ Cardinality(BadPositions(contests[sent.id].names.items)) = 2
  /\ sent.err.validationErrors =
       <<VErr("names.entry", "", RosterSize - 2)>>

\* request r, a List, arrives and is answered in this step
AnswersList(r) ==
  /\ Idle(r)
  /\ sent' # sent
  /\ sent'.by = r
  /\ sent'.op = "list"

\* C19: a List request is answered 200 with all the contest records of the
\* collection and their number as count, and changes nothing.
C19_ListReturnsAll ==
  [][\A r \in Requests :
       AnswersList(r) =>
         /\ sent'.resp.code = 200
         /\ sent'.resp.contests = {contests[i] : i \in ExistingContests}
         /\ sent'.resp.count = Cardinality(ExistingContests)
         /\ contests' = contests
         /\ winners' = winners]_vars

\* C20: a Get, an UpdateNames or a Start that reads an id under which there is
\* no document is answered 404 from the not-found error, with no check of a
\* status or of the preconditions of Start, and the collection stays as it
\* was.
C20_MissingContestIs404 ==
  [][\A r \in Requests : \A op \in {"get", "updateNames", "start"} :
       (Checks(r, op) /\ ~contests[req[r].id].exists) =>
         /\ Answers(r, op)
         /\ sent'.resp.code = 404
         /\ sent'.resp.error = "NOT_FOUND_ERROR"
         /\ sent'.err = NotFoundError
         /\ sent'.err.validationErrors = <<>>
         /\ sent'.err.currentStatus = ""
         /\ contests' = contests]_vars

\* An UpdateNames with an accepted roster was answered 404, and there is no
\* document under its id
C20_UpdateOfMissingContest ==
  /\ sent.op = "updateNames"
  /\ sent.resp.code = 404
  /\ ~contests[sent.id].exists

\* request r arrives with operation op and its handler goes on to the store
Accepted(r, op) ==
  /\ Idle(r)
  /\ req'[r].op = op
  /\ req'[r].pc # "idle"

\* request r arrives with operation op and is answered in the same step
AnswersAtOnce(r, op) ==
  /\ Idle(r)
  /\ sent' # sent
  /\ sent'.by = r
  /\ sent'.op = op

\* a names input as the specification wants it: a sequence of one to the
\* maximum number of entries, each a non-empty string
ValidNamesInput(n) ==
  /\ n.kind = "array"
  /\ Len(n.items) >= 1
  /\ Len(n.items) <= NamesArrayMax
  /\ \A i \in DOMAIN n.items : IsString(n.items[i]) /\ NonEmpty(n.items[i])

\* C21: UpdateNames lets a body through to its handler exactly when the names
\* it was sent are a sequence of 1 to the maximum number of non-empty
\* strings; any other names are answered 400 as a validation error with the
\* collection unchanged.
C21_NamesAcceptedIffValid ==
  [][\A r \in Requests :
       /\ Accepted(r, "updateNames") => ValidNamesInput(req'[r].body.names)
       /\ AnswersAtOnce(r, "updateNames") =>
            /\ ~ValidNamesInput(sent'.body.names)
            /\ sent'.resp.code = 400
            /\ sent'.resp.error = "VALIDATION_ERROR"
            /\ contests' = contests]_vars

\* C22: the createdAt of a contest never changes once it is there, a write of
\* UpdateNames or Start sets updatedAt to the time its handler read,
\* createdAt <= updatedAt holds of every contest, and no step makes an
\* updatedAt smaller.
C22_TimestampsInOrder ==
  [][/\ \A id \in ContestIds :
          /\ contests[id].exists =>
               /\ contests'[id].createdAt = contests[id].createdAt
               /\ contests'[id].updatedAt >= contests[id].updatedAt
          /\ contests'[id].exists =>
               contests'[id].createdAt <= contests'[id].updatedAt
      /\ \A r \in Requests : \A op \in {"updateNames", "start"} :
          Writes(r, op) =>
            contests'[req[r].id].updatedAt = req[r].upd.updatedAt]_vars

\* the fields an error response names in its details
ReportedFields(resp) ==
  ({resp.details.field} \cup
   {resp.details.allErrors[i].field : i \in DOMAIN resp.details.allErrors})
  \ {""}

\* C23: a Create that validation refuses is answered with a response that
\* names every field the validation found wrong, and leaves the store as it
\* was.
C23_CreateReportsAllViolations ==
  [][\A r \in Requests :
       AnswersAtOnce(r, "create") =>
         /\ \A i \in DOMAIN sent'.err.errorDetails :
              sent'.err.errorDetails[i].field \in ReportedFields(sent'.resp)
         /\ contests' = contests]_vars

\* C24: with the store not configured, every request that passes the
\* validation of its input is answered with status 503.
C24_UnconfiguredIs503 ==
  [][(/\ sent' # sent
      /\ sent'.by \in Requests
      /\ sent'.resp.error # "VALIDATION_ERROR") => sent'.resp.code = 503]_vars

\* C25: the name of every stored winner record is a string that is not
\* empty, has no space at either end and has at most MaxNameLength
\* characters.
C25_StoredWinnerNameNonEmpty ==
  \A i \in WinnerIds :
    winners[i].exists =>
      /\ IsString(winners[i].name)
      /\ NonEmpty(winners[i].name)
      /\ Trim(winners[i].name.str) = winners[i].name.str
      /\ Len(winners[i].name.str) <= MaxNameLength

\* C26: every answer to GET /health has status 200, whatever the state of
\* the server.
C26_HealthAlways200 ==
  [][\A r \in Requests :
       AnswersAtOnce(r, "health") => sent'.resp.code = 200]_vars

\* an error the handlers raise for a condition of the domain
DomainError(err) == err.name = "ValidationError" \/ err.code = "not-found"

\* C27: a response is sent for a request only in the step that ends the
\* request; an answer made from a domain error has the category and status
\* of a validation or not-found error, and an answer made from any other
\* error is a server error.
C27_DomainErrorsKeepTheirCategory ==
  [][\A r \in Requests :
       (sent' # sent /\ sent'.by = r) =>
         /\ req'[r].pc = "idle"
         /\ DomainError(sent'.err) =>
              /\ sent'.resp.error \in {"VALIDATION_ERROR", "NOT_FOUND_ERROR"}
              /\ sent'.resp.code \in {400, 404}
         /\ (sent'.err.name # "" /\ ~DomainError(sent'.err)) =>
              sent'.resp.code >= 500]_vars

\* C28: the write of UpdateNames leaves the status, eventId, costPerSquare
\* and createdAt of the addressed contest as they were, and leaves every
\* other contest and every winner record as it was.
C28_UpdateNamesChangesOnlyNames ==
  [][\A r \in Requests :
       Writes(r, "updateNames") =>
         /\ contests'[req[r].id].exists = contests[req[r].id].exists
         /\ contests'[req[r].id].status = contests[req[r].id].status
         /\ contests'[req[r].id].eventId = contests[req[r].id].eventId
         /\ contests'[req[r].id].costPerSquare =
              contests[req[r].id].costPerSquare
         /\ contests'[req[r].id].createdAt = contests[req[r].id].createdAt
         /\ \A k \in ContestIds \ {req[r].id} : contests'[k] = contests[k]
         /\ winners' = winners]_vars

\* the update of an UpdateNames has been applied to a contest that has an
\* eventId and a costPerSquare
C28_NamesWrittenToFullContest ==
  \E r \in Requests :
    /\ req[r].op = "updateNames"
    /\ req[r].pc = "get2"
    /\ contests[req[r].id].names = req[r].upd.names
    /\ Present(contests[req[r].id].eventId)
    /\ Present(contests[req[r].id].costPerSquare)

\* a submitted name without the spaces at its ends and without < and >
CleanName(v) == Str(SelectSeq(Trim(v.str), NotAngle))

\* the submitted names cleaned, without those that are empty then
CleanNames(items) ==
  SelectSeq([i \in DOMAIN items |-> CleanName(items[i])], NonEmpty)

\* the names of a contest change in this step only by the write of a request
NamesChangeByWriteOnly ==
  \A id \in ContestIds :
    contests'[id].names # contests[id].names =>
      \E r \in Requests : \E op \in {"updateNames", "start"} :
        Writes(r, op) /\ req[r].id = id

\* Get answers 200 with the names the contest has in the store
GetReturnsStoredNames ==
  \A r \in Requests :
    (Answers(r, "get") /\ sent'.resp.code = 200) =>
      sent'.resp.data.names = contests[req[r].id].names

C30_ResponseReflectsOwnWrite ==
  [][\A r \in Requests :
       /\ (Answers(r, "updateNames") /\ sent'.resp.code = 200) =>
            sent'.resp.data.names = req[r].upd.names
       /\ (Answers(r, "start") /\ sent'.resp.code = 200) =>
            /\ sent'.resp.data.status = "active"
            /\ sent'.resp.data.names.kind = "array"
            /\ IsPermutation(sent'.resp.data.names.items,
                             req[r].upd.names.items)]_vars

\* C31: when UpdateNames or Start answers with an error status, the update of
\* that request has not been applied to the contest.
C31_ErrorMeansNoWrite ==
  [][\A r \in Requests : \A op \in {"updateNames", "start"} :
       (Answers(r, op) /\ sent'.resp.code >= 400) => req[r].pc # "get2"]_vars

\* request r arrives in this step: it is taken into a route or answered at
\* once
Arrives(r) ==
  /\ Idle(r)
  /\ req'[r].pc # "idle" \/ (sent' # sent /\ sent'.by = r)

\* a POST or PUT request whose Content-Type is not application/json
NonJson(q) ==
  /\ q.op \in {"create", "updateNames", "start", "setWinner"}
  /\ q.contentType # "application/json"

\* the address is neither blocked nor at the limit of a rate limiter
PassesLimiters(ip) ==
  /\ ip \notin blockedIPs
  /\ ddosHits[ip] < DdosLimit
  /\ generalHits[ip] < GeneralLimit

IsShuttingDownAnswer(m) ==
  /\ m.resp.code = 503
  /\ m.resp.message = ShuttingDown.message

TimersOf(ip) == {t \in blockTimers : t.ip = ip}

\* the timers that count down for it after the step
TimersAfter(ip) == {t \in blockTimers' : t.ip = ip}

ShutdownOrder ==
  <<"stopAcceptingConnections", "waitForActiveRequests",
    "closeDatabaseConnections", "closeServer", "exitProcess">>

\* C34: whatever signals arrive, the steps of the shutdown sequence begin one
\* at a time and in the fixed order, each of them at most once; the process
\* exits only after the last step; a signal that arrives while the server is
\* shutting down changes nothing.
C34_ShutdownOnceInOrder ==
  [][/\ Len(shutdownLog') <= Len(ShutdownOrder)
     /\ shutdownLog' = SubSeq(ShutdownOrder, 1, Len(shutdownLog'))
     /\ shutdownLog' # shutdownLog => Len(shutdownLog') = Len(shutdownLog) + 1
     /\ exitCode' # NotExited => shutdownLog' = ShutdownOrder
     /\ (isShuttingDown /\ signalsReceived' # signalsReceived) =>
          UNCHANGED <<contests, winners, req, now, sent, isShuttingDown,
                      limiterVars, activeConnections, openSockets, listening,
                      shutdownLog, elapsed, exitCode>>]_vars

\* the process has exited after the whole sequence, and signals arrived while
\* it ran
C34_ExitedAfterSeveralSignals ==
  /\ exitCode = 0
  /\ signalsReceived = MaxSignals
  /\ shutdownLog = ShutdownOrder


\* C35: once the server is shutting down, the process eventually exits,
\* whether or not the clients end their connections.
C35_ShutdownExits == isShuttingDown ~> (exitCode # NotExited)

====
